---- MODULE Spec2Model ----
(***************************************************************************)
(* drivetan (src/src/main.rs): mirror a source tree into a destination     *)
(* directory, replacing files above --max-size by stub files.              *)
(*                                                                         *)
(* A path is the sequence of its components relative to a root: <<>> is   *)
(* the root itself, <<"a", "f">> is a/f.  Names are strings, so appending  *)
(* the extension to a file name is string concatenation and two entries    *)
(* may map to one destination name.                                        *)
(***************************************************************************)
EXTENDS Integers, Sequences, FiniteSets, TLC

VARIABLES
    args,             \* the parsed command line (struct Args)
    source,           \* the source tree on disk: path -> [kind, size]
    srcExists,        \* whether args.source exists at validation
    fs,               \* the destination tree on disk: path -> node, <<>> is args.destination
    fs0,              \* the destination tree when the run started
    regex,            \* the RegexSet built from the skip file
    stack,            \* the walker: one set of pending items per open directory
    flat,             \* FALSE for walkdir's parent-first order
    success_entries,
    error_entries,
    skipped_entries,
    stdout,           \* the lines printed on standard output
    summary,          \* the counters of the final stderr line, <<>> before it
    log,              \* every item the loop consumed, with what became of it
    faults,           \* the environment failures injected so far
    pc                \* "start", "regex", "loop", then "ok", "failed" or "fatal"

vars == <<args, source, srcExists, fs, fs0, regex, stack, flat, success_entries,
          error_entries, skipped_entries, stdout, summary, log, faults, pc>>

----------------------------------------------------------------------------
(* Bounds *)

\* file sizes and --max-size range over 0..MaxLen
MaxLen == 2

\* at most MaxFaults environment failures (I/O errors) are injected in a run
MaxFaults == 1

----------------------------------------------------------------------------
(* Command line *)

\* default_value = "0" of --max-size
DefaultMaxSize == 0

\* the --extension in use (the default is ".drivetan.txt"; "x" keeps names short)
Extension == "x"

\* default_value of --magic
Magic == "DRIVETAN"

\* the source root as it appears in every walked path
SourceRoot == "s"

Args == [max_size : 0..MaxLen, extension : {Extension}, magic : {Magic},
         skip_file : BOOLEAN]

----------------------------------------------------------------------------
(* Paths *)

Root == <<>>

Parent(p) == SubSeq(p, 1, Len(p) - 1)

FileName(p) == p[Len(p)]

\* PathBuf::set_file_name: replace the last component
SetFileName(p, name) == Append(Parent(p), name)

IsPrefix(p, q) == Len(p) <= Len(q) /\ SubSeq(q, 1, Len(p)) = p

\* the proper ancestors of p, the root included
Ancestors(p) == {SubSeq(p, 1, n) : n \in 0..(Len(p) - 1)}

RECURSIVE JoinPath(_)
JoinPath(p) == IF p = <<>> THEN "" ELSE "/" \o Head(p) \o JoinPath(Tail(p))

\* entry.path() of the entry at relative path p: the source root joined with p
EntryPath(p) == SourceRoot \o JoinPath(p)

----------------------------------------------------------------------------
(* Skip patterns: RegexSet over the bytes of entry.path() *)

\* A pattern is a literal searched anywhere in the path (a regex is not
\* anchored unless it says so), optionally ending in `$`.
Pattern(lit, anchored) == [lit |-> lit, anchored |-> anchored]

\* the patterns a skip file may hold: `/a$` and `fx`
Patterns == {Pattern("/a", TRUE), Pattern("fx", FALSE)}

MatchesAt(pat, s, i) ==
    LET j == i + Len(pat.lit) - 1
    IN  /\ j <= Len(s)
        /\ SubSeq(s, i, j) = pat.lit
        /\ pat.anchored => j = Len(s)

\* RegexSet::is_match: some pattern matches somewhere
IsMatch(set, s) == \E pat \in set : \E i \in 1..Len(s) : MatchesAt(pat, s, i)

----------------------------------------------------------------------------
(* The source tree *)

SrcDir == [kind |-> "dir", size |-> 0]

SrcFile(n) == [kind |-> "file", size |-> n]

Shapes == {
    [dirs |-> {Root, <<"a">>}, files |-> {<<"a", "f">>, <<"a", "fx">>}],
    [dirs |-> {Root, <<"a">>, <<"a", "d">>}, files |-> {<<"a", "d", "f">>}],
    [dirs |-> {Root, <<"fx">>}, files |-> {<<"f">>}] }

TreeOf(shape, sizes) ==
    [p \in shape.dirs \cup shape.files |->
        IF p \in shape.dirs THEN SrcDir ELSE SrcFile(sizes[p])]

\* the source trees of the model: every shape with every assignment of sizes
Trees == UNION {{TreeOf(sh, sz) : sz \in [sh.files -> 0..MaxLen]} : sh \in Shapes}

Children(tree, p) == {q \in DOMAIN tree : Len(q) = Len(p) + 1 /\ Parent(q) = p}

----------------------------------------------------------------------------
(* The destination file system *)

DirNode == [kind |-> "dir", data |-> "", times |-> <<>>]

\* a regular file just written: its times are those of the write
FileNode(data) == [kind |-> "file", data |-> data, times |-> <<"now">>]

\* the bytes of the source file at p (each source file has its own content)
Bytes(p) == "bytes of " \o EntryPath(p)

\* the access and modification times of the source file at p
Times(p) == <<"times", EntryPath(p)>>

Exists(f, p) == p \in DOMAIN f

IsDir(f, p) == Exists(f, p) /\ f[p].kind = "dir"

IsFile(f, p) == Exists(f, p) /\ f[p].kind = "file"

Put(f, p, node) == [q \in DOMAIN f \cup {p} |-> IF q = p THEN node ELSE f[q]]

\* the result of a file-system call: whether it succeeded and the tree it leaves
Ok(f) == [ok |-> TRUE, fs |-> f]

Err(f) == [ok |-> FALSE, fs |-> f]

\* std::fs::create_dir: the parent must be a directory and p must not exist
CreateDir(f, p, fail) ==
    IF fail \/ Exists(f, p) \/ (p # Root /\ ~IsDir(f, Parent(p)))
    THEN Err(f)
    ELSE Ok(Put(f, p, DirNode))

\* create_dir in the place of create_dir_all
CreateDirOnly(f, p, fail) == CreateDir(f, p, fail)

\* std::fs::create_dir_all: Ok when p is a directory already; otherwise
\* creates p and its missing ancestors, and fails when p or an ancestor
\* exists and is no directory
CreateDirAll(f, p, fail) ==
    IF fail \/ \E q \in Ancestors(p) \cup {p} : IsFile(f, q)
    THEN Err(f)
    ELSE Ok([q \in DOMAIN f \cup Ancestors(p) \cup {p} |->
                IF Exists(f, q) THEN f[q] ELSE DirNode])

\* open(p, create + truncate) as std::fs::write and std::fs::copy do: the
\* parent must be an existing directory and p must not be a directory
CanCreateFile(f, p) == p # Root /\ IsDir(f, Parent(p)) /\ ~IsDir(f, p)

\* std::fs::write
FsWrite(f, p, data, fail) ==
    IF fail \/ ~CanCreateFile(f, p) THEN Err(f) ELSE Ok(Put(f, p, FileNode(data)))

\* std::fs::copy of the source file at `from`
FsCopy(f, from, to, fail) ==
    IF fail \/ ~CanCreateFile(f, to) THEN Err(f) ELSE Ok(Put(f, to, FileNode(Bytes(from))))

\* a failure to set the times swallowed
SetFileTimesIgnored(f, p, times, fail) ==
    IF fail \/ ~Exists(f, p) THEN Ok(f) ELSE Ok([f EXCEPT ![p].times = times])

\* filetime::set_file_times
SetFileTimes(f, p, times, fail) ==
    IF fail \/ ~Exists(f, p) THEN Err(f) ELSE Ok([f EXCEPT ![p].times = times])

----------------------------------------------------------------------------
(* construct_meta_content *)

KiB == 1024

\* format!("{:.2}", len / unit): len / unit in hundredths, rounded to nearest,
\* a tie to the even neighbour
Hundredths(len, unit) ==
    LET q == (len * 100) \div unit
        r == (len * 100) % unit
    IN  IF 2 * r > unit \/ (2 * r = unit /\ q % 2 = 1) THEN q + 1 ELSE q

TwoDecimals(h) ==
    ToString(h \div 100) \o "." \o ToString((h % 100) \div 10) \o ToString(h % 10)

HumanSize(len) ==
    IF len < KiB THEN ToString(len) \o " B"
    ELSE IF len < KiB * KiB THEN TwoDecimals(Hundredths(len, KiB)) \o " KiB"
    ELSE IF len < KiB * KiB * KiB THEN TwoDecimals(Hundredths(len, KiB * KiB)) \o " MiB"
    ELSE TwoDecimals(Hundredths(len, KiB * KiB * KiB)) \o " GiB"

ConstructMetaContent(a, len) ==
    a.magic \o "\n\nsize:       " \o ToString(len) \o "\nhuman_size: " \o HumanSize(len) \o "\n"

----------------------------------------------------------------------------
(* handle_direntry *)

\* what the environment may do to one call of handle_direntry:
\*   "meta"  direntry.metadata() fails
\*   "io"    create_dir_all, write or copy fails
\*   "time"  meta.accessed(), meta.modified() or set_file_times fails
\* (diff_paths of a walked path against the root it was walked from always
\* returns Some, so the None arm is never taken)
Faults == {"none", "meta", "io", "time"}

\* the stub's name: the file name with the extension pushed onto it
StubPath(a, p) == SetFileName(p, FileName(p) \o a.extension)

\* >= in the place of >
AtLeast(a, len) == len >= a.max_size

\* meta.len() > args.max_size
TooLarge(a, len) == len > a.max_size

\* `dest` when the file is written: args.destination joined with the
\* relative path, renamed when the file is too large to be copied
DestOf(a, tree, p) == IF TooLarge(a, tree[p].size) THEN StubPath(a, p) ELSE p

HandleDirentry(a, tree, f, p, fault) ==
    IF fault = "meta" THEN Err(f)
    ELSE IF tree[p].kind = "dir" THEN CreateDirAll(f, p, fault = "io")
    ELSE LET dest == DestOf(a, tree, p)
             w == IF TooLarge(a, tree[p].size)
                  THEN FsWrite(f, dest, ConstructMetaContent(a, tree[p].size), fault = "io")
                  ELSE FsCopy(f, p, dest, fault = "io")
         IN  IF ~w.ok THEN w ELSE SetFileTimes(w.fs, dest, Times(p), fault = "time")

----------------------------------------------------------------------------
(* The walker: walkdir::WalkDir::new(&args.source).into_iter() *)

\* what the iterator yields: Ok(entry) for the entry at `path`, or the
\* Err of the directory at `path` that could not be read
Entry(p) == [path |-> p, err |-> FALSE]

WalkError(p) == [path |-> p, err |-> TRUE]

\* close the directories that have nothing left to yield
RECURSIVE Unwind(_)
Unwind(st) ==
    IF st # <<>> /\ st[Len(st)] = {} THEN Unwind(SubSeq(st, 1, Len(st) - 1)) ELSE st

\* the items the next call of next() may yield (a directory's entries come
\* in any order)
Pending(st) == IF Unwind(st) = <<>> THEN {} ELSE Unwind(st)[Len(Unwind(st))]

\* the walker after yielding `it`: a directory is opened and its entries
\* (or the error of reading it) are yielded next, before its siblings
Advance(st, tree, it, readable, isFlat) ==
    LET top  == Unwind(st)
        rest == [top EXCEPT ![Len(top)] = @ \ {it}]
    IN  IF it.err \/ isFlat \/ tree[it.path].kind # "dir" THEN rest
        ELSE IF readable THEN Append(rest, {Entry(c) : c \in Children(tree, it.path)})
        ELSE Append(rest, {WalkError(it.path)})

\* the directories of the tree that cannot be read, MaxFaults at most
Unreadable(tree) ==
    {u \in SUBSET {p \in DOMAIN tree : tree[p].kind = "dir"} : Cardinality(u) <= MaxFaults}

\* everything a walk yields when the directories in `unreadable` cannot be
\* read: the error of each of them and the entries that are not below one
AllItems(tree, unreadable) ==
    {WalkError(u) : u \in {v \in unreadable : \A w \in unreadable : ~(w # v /\ IsPrefix(w, v))}}
    \cup {Entry(p) : p \in {q \in DOMAIN tree :
                                \A u \in unreadable : q = u \/ ~IsPrefix(u, q)}}

----------------------------------------------------------------------------
(* The destination before the run *)

NoFs == [p \in {} |-> DirNode]

OtherFile == [kind |-> "file", data |-> "other", times |-> <<"old">>]

\* args.destination when the run starts: absent, an empty directory, a
\* directory holding a file, a directory holding a directory, a regular file
InitialFs == {
    NoFs,
    [p \in {Root} |-> DirNode],
    [p \in {Root, <<"z">>} |-> IF p = Root THEN DirNode ELSE OtherFile],
    [p \in {Root, <<"a">>} |-> DirNode],
    [p \in {Root} |-> OtherFile] }

\* the emptiness check left out
NeverHasEntries(f) == FALSE

\* read_dir(&args.destination).next().is_some()
HasEntries(f) == \E p \in DOMAIN f : p # Root

----------------------------------------------------------------------------
(* State machine *)

InitWith(isFlat) ==
    /\ args \in Args
    /\ source \in Trees
    /\ srcExists \in BOOLEAN
    /\ fs \in InitialFs
    /\ fs0 = fs
    /\ regex = {}
    /\ flat = isFlat
    /\ \E unreadable \in (IF isFlat THEN Unreadable(source) ELSE {{}}) :
         /\ stack = IF isFlat THEN <<AllItems(source, unreadable)>> ELSE <<{Entry(Root)}>>
         /\ faults = Cardinality(unreadable)
    /\ success_entries = 0
    /\ error_entries = 0
    /\ skipped_entries = 0
    /\ stdout = <<>>
    /\ summary = <<>>
    /\ log = <<>>
    /\ pc = "start"

Init == InitWith(FALSE)

\* check_args(&args)?
CheckArgs ==
    /\ pc = "start"
    /\ \E fail \in BOOLEAN :
         IF ~srcExists THEN
             /\ pc' = "fatal"
             /\ fs' = fs
         ELSE IF ~Exists(fs, Root) THEN
             LET r == CreateDir(fs, Root, fail)
             IN  /\ fs' = r.fs
                 /\ pc' = IF r.ok THEN "regex" ELSE "fatal"
         ELSE
             /\ fs' = fs
             /\ pc' = IF fail \/ ~IsDir(fs, Root) \/ HasEntries(fs) THEN "fatal" ELSE "regex"
    /\ UNCHANGED <<args, source, srcExists, fs0, regex, stack, flat, success_entries,
                   error_entries, skipped_entries, stdout, summary, log, faults>>

\* let regex = match &args.skip_file { ... }: the skip file may be unreadable
\* or hold an invalid pattern, and both end the run
BuildRegex ==
    /\ pc = "regex"
    /\ IF args.skip_file
       THEN \E read \in {"unreadable", "invalid", "ok"}, set \in SUBSET Patterns :
              IF read # "ok"
              THEN pc' = "fatal" /\ regex' = regex
              ELSE pc' = "loop" /\ regex' = set
       ELSE pc' = "loop" /\ regex' = {}
    /\ UNCHANGED <<args, source, srcExists, fs, fs0, stack, flat, success_entries,
                   error_entries, skipped_entries, stdout, summary, log, faults>>

Logged(it, what, fault) == [path |-> it.path, what |-> what, fault |-> fault]

\* a walk error that is reported and not counted
LoopWalkErrorUncounted ==
    /\ pc = "loop"
    /\ \E it \in Pending(stack) :
         /\ it.err
         /\ stack' = Advance(stack, source, it, TRUE, flat)
         /\ log' = Append(log, Logged(it, "walkerr", "none"))
    /\ UNCHANGED <<args, source, srcExists, fs, fs0, regex, flat, success_entries,
                   error_entries, skipped_entries, stdout, summary, faults, pc>>

\* Err(err) => error_entries += 1
LoopWalkError ==
    /\ pc = "loop"
    /\ \E it \in Pending(stack) :
         /\ it.err
         /\ stack' = Advance(stack, source, it, TRUE, flat)
         /\ log' = Append(log, Logged(it, "walkerr", "none"))
    /\ error_entries' = error_entries + 1
    /\ UNCHANGED <<args, source, srcExists, fs, fs0, regex, flat, success_entries,
                   skipped_entries, stdout, summary, faults, pc>>

\* whether the environment may still fail: a directory that cannot be read
CanFail(n) == faults + n <= MaxFaults

Readable(it) ==
    IF source[it.path].kind = "dir" /\ ~flat /\ CanFail(1) THEN BOOLEAN ELSE {TRUE}

\* Ok(entry) with regex.is_match(...) => skipped_entries += 1
LoopSkipped ==
    /\ pc = "loop"
    /\ \E it \in Pending(stack) :
         /\ ~it.err
         /\ IsMatch(regex, EntryPath(it.path))
         /\ \E readable \in Readable(it) :
              /\ stack' = Advance(stack, source, it, readable, flat)
              /\ faults' = faults + IF readable THEN 0 ELSE 1
         /\ log' = Append(log, Logged(it, "skipped", "none"))
    /\ skipped_entries' = skipped_entries + 1
    /\ UNCHANGED <<args, source, srcExists, fs, fs0, regex, flat, success_entries,
                   error_entries, stdout, summary, pc>>

\* the failures that can strike the entry at p: a directory has no times set
FaultsFor(p) == IF source[p].kind = "dir" THEN Faults \ {"time"} ELSE Faults

\* Ok(entry) without a match => handle_direntry(&args, &entry), then
\* println! and success_entries += 1, or eprintln! and error_entries += 1
LoopHandle ==
    /\ pc = "loop"
    /\ \E it \in Pending(stack) :
         /\ ~it.err
         /\ ~IsMatch(regex, EntryPath(it.path))
         /\ \E fault \in FaultsFor(it.path), readable \in Readable(it) :
              LET n == (IF fault = "none" THEN 0 ELSE 1) + (IF readable THEN 0 ELSE 1)
                  r == HandleDirentry(args, source, fs, it.path, fault)
              IN  /\ CanFail(n)
                  /\ faults' = faults + n
                  /\ stack' = Advance(stack, source, it, readable, flat)
                  /\ fs' = r.fs
                  /\ IF r.ok
                     THEN /\ stdout' = Append(stdout, EntryPath(it.path))
                          /\ success_entries' = success_entries + 1
                          /\ error_entries' = error_entries
                          /\ log' = Append(log, Logged(it, "ok", fault))
                     ELSE /\ stdout' = stdout
                          /\ success_entries' = success_entries
                          /\ error_entries' = error_entries + 1
                          /\ log' = Append(log, Logged(it, "failed", fault))
    /\ UNCHANGED <<args, source, srcExists, fs0, regex, flat, skipped_entries,
                   summary, pc>>

\* a run that also fails when an entry failed
FinishStrict ==
    /\ pc = "loop"
    /\ Pending(stack) = {}
    /\ IF success_entries = 0 \/ error_entries > 0
       THEN pc' = "failed" /\ summary' = summary
       ELSE pc' = "ok" /\ summary' = <<success_entries, error_entries, skipped_entries>>
    /\ UNCHANGED <<args, source, srcExists, fs, fs0, regex, stack, flat, success_entries,
                   error_entries, skipped_entries, stdout, log, faults>>

\* after the loop: bail when nothing succeeded, else print the summary
Finish ==
    /\ pc = "loop"
    /\ Pending(stack) = {}
    /\ IF success_entries = 0
       THEN pc' = "failed" /\ summary' = summary
       ELSE pc' = "ok" /\ summary' = <<success_entries, error_entries, skipped_entries>>
    /\ UNCHANGED <<args, source, srcExists, fs, fs0, regex, stack, flat, success_entries,
                   error_entries, skipped_entries, stdout, log, faults>>

Next ==
    \/ CheckArgs
    \/ BuildRegex
    \/ LoopWalkError
    \/ LoopSkipped
    \/ LoopHandle
    \/ Finish

Spec == Init /\ [][Next]_vars

\* the same program over a walker that yields the entries of the source
\* tree in any order at all
InitAnyOrder == InitWith(TRUE)

SpecAnyOrder == InitAnyOrder /\ [][Next]_vars

----------------------------------------------------------------------------
(* Properties *)

Ended == pc \in {"ok", "failed"}

Handled(e) == e.what \in {"ok", "failed"}

IsFileEntry(e) == Handled(e) /\ source[e.path].kind = "file"

Count(what) == Cardinality({i \in 1..Len(log) : log[i].what \in what})

\* this step consumed one item of the walker
Consumes == Len(log') = Len(log) + 1

\* C10: every item the walker yields adds exactly one to exactly one of the
\* three counters (a walk error or a failed entry to error_entries, a skipped
\* entry to skipped_entries without touching the destination, a processed
\* entry to success_entries with one line on stdout), so the counters sum to
\* the number of items consumed, never decrease, and stdout has one line per
\* success.
C10_Counters ==
    /\ [](/\ success_entries + error_entries + skipped_entries = Len(log)
          /\ success_entries = Count({"ok"})
          /\ error_entries = Count({"failed", "walkerr"})
          /\ skipped_entries = Count({"skipped"})
          /\ Len(stdout) = success_entries)
    /\ [][/\ success_entries' >= success_entries
          /\ error_entries' >= error_entries
          /\ skipped_entries' >= skipped_entries
          /\ Consumes =>
               LET e == log'[Len(log')]
                   d == <<success_entries' - success_entries,
                          error_entries' - error_entries,
                          skipped_entries' - skipped_entries,
                          Len(stdout') - Len(stdout)>>
               IN  /\ e.what = "ok" => d = <<1, 0, 0, 1>> /\ stdout'[Len(stdout')] = EntryPath(e.path)
                   /\ e.what \in {"failed", "walkerr"} => d = <<0, 1, 0, 0>>
                   /\ e.what = "skipped" => d = <<0, 0, 1, 0>> /\ fs' = fs]_vars

\* a run that consumed a walk error, a skipped entry and a successful one
C10_Witness ==
    /\ Count({"walkerr"}) > 0
    /\ Count({"skipped"}) > 0
    /\ Count({"ok"}) > 0
    /\ success_entries + error_entries + skipped_entries >= 3

\* C5: once the walker is exhausted the run fails exactly when
\* success_entries is zero; with one success it succeeds whatever the other
\* counters are, and the summary line carries the three counters.
C5_ExitStatus ==
    Ended =>
        /\ Pending(stack) = {}
        /\ pc = "failed" <=> success_entries = 0
        /\ pc = "ok" => summary = <<success_entries, error_entries, skipped_entries>>
        /\ pc = "failed" => summary = <<>>

\* a run that ends in success with errors and skipped entries counted
C5_Witness == pc = "ok" /\ error_entries > 0 /\ skipped_entries > 0 /\ summary # <<>>

\* C6: a destination that exists and holds an entry when the run starts ends
\* the run in validation: nothing is consumed from the walker, the counters
\* stay zero and the destination is as it was.
C6_NonEmptyDestination ==
    (\E p \in DOMAIN fs0 : p # Root) =>
        /\ pc \in {"start", "fatal"}
        /\ fs = fs0
        /\ log = <<>>
        /\ stdout = <<>>
        /\ stack = <<{Entry(Root)}>>
        /\ success_entries = 0 /\ error_entries = 0 /\ skipped_entries = 0

\* validation has rejected a destination that holds an entry
C6_Witness == pc = "fatal" /\ srcExists /\ (\E p \in DOMAIN fs0 : p # Root)

\* the entry this step processed, when it processed one
Processed(e) == Consumes /\ e = log'[Len(log')] /\ Handled(e)

StubOf(p) == ConstructMetaContent(args, source[p].size)

HoldsStub(f, p) == IsFile(f, StubPath(args, p)) /\ f[StubPath(args, p)].data = StubOf(p)

HoldsCopy(f, p) == IsFile(f, p) /\ f[p].data = Bytes(p)

\* C9: when the write of a file entry succeeds and the timestamps fail, the
\* written file stays, the entry counts as an error and not as a success,
\* nothing goes to stdout, and the loop goes on.
C9_TimestampFailure ==
    [][\A e \in {log'[i] : i \in {Len(log')} \ {0}} :
         (Processed(e) /\ source[e.path].kind = "file" /\ e.fault = "time"
             /\ IsDir(fs, Parent(DestOf(args, source, e.path)))
             /\ ~IsDir(fs, DestOf(args, source, e.path)))
         => /\ IF source[e.path].size > args.max_size
               THEN HoldsStub(fs', e.path)
               ELSE HoldsCopy(fs', e.path)
            /\ fs'[DestOf(args, source, e.path)].times = <<"now">>
            /\ e.what = "failed"
            /\ error_entries' = error_entries + 1
            /\ success_entries' = success_entries
            /\ stdout' = stdout
            /\ pc' = "loop"]_vars

\* a file was written, its timestamps failed, and a later entry was processed
C9_Witness ==
    \E i \in 1..Len(log) :
        /\ IsFileEntry(log[i]) /\ log[i].fault = "time" /\ log[i].what = "failed"
        /\ IsFile(fs, DestOf(args, source, log[i].path))
        /\ i < Len(log)

\* C7 as claimed: with max_size 0 every file processed successfully, an
\* empty one included, becomes a stub and none is copied.
C7_StubEverything ==
    [][\A e \in {log'[i] : i \in {Len(log')} \ {0}} :
         (Processed(e) /\ source[e.path].kind = "file" /\ e.what = "ok"
             /\ args.max_size = DefaultMaxSize)
         => HoldsStub(fs', e.path) /\ ~HoldsCopy(fs', e.path)]_vars

\* C7 amended: with max_size 0 every file of size > 0 processed successfully
\* becomes a stub and is not copied; an empty file (size 0 = max_size) is
\* copied under its own name and gets no stub.
C7_StubNonEmpty ==
    [][\A e \in {log'[i] : i \in {Len(log')} \ {0}} :
         (Processed(e) /\ source[e.path].kind = "file" /\ e.what = "ok"
             /\ args.max_size = DefaultMaxSize)
         => IF source[e.path].size > 0
            THEN /\ HoldsStub(fs', e.path)
                 /\ fs'[StubPath(args, e.path)].times = Times(e.path)
                 /\ ~HoldsCopy(fs', e.path)
            ELSE /\ HoldsCopy(fs', e.path)
                 /\ fs'[e.path].times = Times(e.path)
                 /\ ~HoldsStub(fs', e.path)]_vars

\* with max_size 0, an empty file and a non-empty file were both processed
C7_Witness ==
    /\ args.max_size = DefaultMaxSize
    /\ \E i, j \in 1..Len(log) :
         /\ IsFileEntry(log[i]) /\ log[i].what = "ok" /\ source[log[i].path].size = 0
         /\ IsFileEntry(log[j]) /\ log[j].what = "ok" /\ source[log[j].path].size > 0

\* C4: after a run without a failure and without a skipped entry every
\* directory of the source tree is a directory of the destination, in
\* whatever order the walker yields a directory and its descendants; and
\* creating a directory that is already there succeeds and changes nothing
\* in the destination.
C4_DirectoriesMirrored ==
    /\ []((Ended /\ error_entries = 0 /\ skipped_entries = 0) =>
            \A p \in DOMAIN source : source[p].kind = "dir" => IsDir(fs, p))
    /\ [][\A e \in {log'[i] : i \in {Len(log')} \ {0}} :
            (Processed(e) /\ source[e.path].kind = "dir" /\ e.fault = "none"
                /\ IsDir(fs, e.path))
            => e.what = "ok" /\ fs' = fs]_vars

\* a clean run in which a directory was processed after one of its
\* descendants had created it
C4_Witness ==
    /\ pc = "ok" /\ error_entries = 0 /\ skipped_entries = 0
    /\ \E i, j \in 1..Len(log) :
         /\ i < j
         /\ source[log[j].path].kind = "dir"
         /\ log[i].path # log[j].path
         /\ IsPrefix(log[j].path, log[i].path)
         /\ log[j].path # Root

\* C1 as claimed: at the end of a run the destination holds nothing at the
\* relative path of a source path that matches a skip pattern.
C1_SkippedAbsent ==
    Ended => \A p \in DOMAIN source \ {Root} :
                 IsMatch(regex, EntryPath(p)) => ~Exists(fs, p)

\* C2 as claimed: a file processed successfully is in the destination as a
\* stub under name + extension and not under its own name when its size
\* exceeds max_size, and as a copy under its own name and not as a stub
\* otherwise.
C2_CopyOrStub ==
    \A i \in 1..Len(log) :
        (IsFileEntry(log[i]) /\ log[i].what = "ok") =>
            IF source[log[i].path].size > args.max_size
            THEN HoldsStub(fs, log[i].path) /\ ~Exists(fs, log[i].path)
            ELSE HoldsCopy(fs, log[i].path) /\ ~HoldsStub(fs, log[i].path)

\* C3 as claimed: a file entry whose destination parent directory is missing
\* when it is processed is written all the same and reported as a success.
C3_ParentsCreated ==
    [][\A e \in {log'[i] : i \in {Len(log')} \ {0}} :
         (Processed(e) /\ source[e.path].kind = "file" /\ e.fault = "none"
             /\ ~Exists(fs, Parent(e.path)))
         => e.what = "ok" /\ IsFile(fs', DestOf(args, source, e.path))]_vars

\* the same run with no failure injected: the destination after the first i
\* items of the log, and whether item i succeeds
RECURSIVE CleanFs(_)
CleanFs(i) ==
    IF i = 0 THEN [p \in {Root} |-> DirNode]
    ELSE IF Handled(log[i])
         THEN HandleDirentry(args, source, CleanFs(i - 1), log[i].path, "none").fs
         ELSE CleanFs(i - 1)

CleanOk(i) == HandleDirentry(args, source, CleanFs(i - 1), log[i].path, "none").ok

\* C8 as claimed: an entry that succeeds in the run where every entry
\* succeeds also succeeds in a run where another entry fails (the walker
\* yielding the same items in the same order, and no failure striking the
\* entry itself).
C8_IndependentOutcomes ==
    (Ended /\ Count({"walkerr"}) = 0
           /\ \A j \in 1..Len(log) : Handled(log[j]) => CleanOk(j))
    => \A i \in 1..Len(log) :
           (Handled(log[i]) /\ log[i].fault = "none") => log[i].what = "ok"

====
